---- MODULE Spec2Model ----
(***************************************************************************)
(* RakshAI (source code/App.tsx): the provider-agnostic analysis layer.    *)
(*                                                                         *)
(* JavaScript values are tagged records, so that a || b, !a, optional      *)
(* chaining and a missing property behave as in the source.  Strings that  *)
(* the code takes apart (the reply text, a URL, a hostname, an error        *)
(* message) are sequences of tokens; every other string is an atom.        *)
(***************************************************************************)
EXTENDS Integers, Sequences, FiniteSets, TLC

VARIABLES
    localStorage,    \* window.localStorage: item name -> string (a missing item is not in the domain)
    importMetaEnv,   \* import.meta.env: [present, vars]
    processEnv,      \* process.env: [present, vars]
    activeCategory,  \* App state (line 784)
    isDeep,          \* App state (line 785)
    isAnalyzing,     \* App state (line 786)
    result,          \* App state (line 787): JNull or an AnalysisResult
    showSettings,    \* App state (line 791)
    pc,              \* where handleAnalyze stands: "idle" or "awaiting" (the provider call is outstanding)
    req,             \* what analyzeContent read and sent before it suspended
    calls,           \* provider network calls issued by the current/last analyze request
    reply,           \* the provider reply the current/last analyze request received, NoReply before
    alertMsg,        \* the message of the last alert() of handleAnalyze, NoAlert after a start
    ocr,             \* where performOCR stands: [pc, provider, apiKey]
    ocrCalls,        \* provider network calls issued by the current/last performOCR call
    ocrOutcome       \* how the last performOCR call settled: NoOutcome, [ok, text] or [ok, message]

vars == <<localStorage, importMetaEnv, processEnv, activeCategory, isDeep, isAnalyzing,
          result, showSettings, pc, req, calls, reply, alertMsg, ocr, ocrCalls, ocrOutcome>>

(***************************************************************************)
(* JavaScript values                                                       *)
(***************************************************************************)
JUndef == [t |-> "undefined"]
JNull == [t |-> "null"]
JNum(n) == [t |-> "number", n |-> n]
JStr(s) == [t |-> "string", s |-> s]
\* An object as its JSON text lists it: a sequence of [key, val] members.
JObj(m) == [t |-> "object", members |-> m]
JArr(a) == [t |-> "array", items |-> a]

\* ToBoolean: undefined, null, 0 and "" are falsy.
Truthy(v) ==
    CASE v.t = "undefined" -> FALSE
      [] v.t = "null" -> FALSE
      [] v.t = "number" -> v.n # 0
      [] v.t = "string" -> v.s # ""
      [] OTHER -> TRUE

\* a || b
JOr(a, b) == IF Truthy(a) THEN a ELSE b

\* obj?.[key]: the last member named key wins (JSON.parse), a value that is
\* no object, or an object without the key, gives undefined.
RECURSIVE LastMember(_, _, _)
LastMember(m, key, i) ==
    IF i = 0 THEN JUndef
    ELSE IF m[i].key = key THEN m[i].val
    ELSE LastMember(m, key, i - 1)

JGet(obj, key) ==
    IF obj.t = "object" THEN LastMember(obj.members, key, Len(obj.members)) ELSE JUndef

(***************************************************************************)
(* Configuration helpers (lines 38-69)                                     *)
(***************************************************************************)
Providers == {"perplexity", "gemini"}

\* localStorage.getItem(name): null when the item is not stored.
getItem(ls, name) == IF name \in DOMAIN ls THEN JStr(ls[name]) ELSE JNull

\* env[name]: undefined when the variable is not set.
EnvVar(env, name) == IF name \in DOMAIN env.vars THEN JStr(env.vars[name]) ELSE JUndef

getProvider(ls) ==
    LET p == getItem(ls, "AI_PROVIDER") IN IF Truthy(p) THEN p.s ELSE "perplexity"

KeyName(provider) == IF provider = "gemini" THEN "GEMINI_API_KEY" ELSE "PERPLEXITY_API_KEY"

\* The template VITE_<keyName>
ViteName(keyName) ==
    IF keyName = "GEMINI_API_KEY" THEN "VITE_GEMINI_API_KEY" ELSE "VITE_PERPLEXITY_API_KEY"

getApiKey(provider, ls, metaEnv, procEnv) ==
    LET keyName == KeyName(provider)
        localKey == getItem(ls, keyName)
    IN IF Truthy(localKey) THEN localKey
       ELSE IF metaEnv.present THEN EnvVar(metaEnv, ViteName(keyName))
       ELSE IF procEnv.present THEN EnvVar(procEnv, keyName)
       ELSE JStr("")

(***************************************************************************)
(* Strings the code takes apart                                            *)
(***************************************************************************)
\* A JavaScript string given by its tokens (a URL, a hostname).
JText(toks) == [t |-> "text", toks |-> toks]

\* The tokens of a reply text: three backticks and json, three backticks, a line break.
TFenceJson == [k |-> "fence-json"]
TFence == [k |-> "fence"]
TNewline == [k |-> "newline"]
\* Any other run of characters: a language tag after a fence, a sentence of prose.
TWord(w) == [k |-> "word", w |-> w]
\* The complete JSON text of the value v.
TJson(v) == [k |-> "json", v |-> v]
\* A JSON text cut off before its end (a truncated payload).
TCut == [k |-> "cut"]

\* ReplaceFences that knows the opening fence only: a closing fence stays.
RECURSIVE ReplaceFences_openingOnly(_)
ReplaceFences_openingOnly(s) ==
    IF s = <<>> THEN <<>>
    ELSE IF Head(s) = TFenceJson
         THEN IF Len(s) >= 2 /\ s[2] = TNewline
              THEN ReplaceFences_openingOnly(SubSeq(s, 3, Len(s)))
              ELSE ReplaceFences_openingOnly(Tail(s))
    ELSE <<Head(s)>> \o ReplaceFences_openingOnly(Tail(s))

\* content.replace(/FENCEjson\n?|FENCE/g, empty) (line 214), FENCE being three backticks
RECURSIVE ReplaceFences(_)
ReplaceFences(s) ==
    IF s = <<>> THEN <<>>
    ELSE IF Head(s) = TFenceJson
         THEN IF Len(s) >= 2 /\ s[2] = TNewline
              THEN ReplaceFences(SubSeq(s, 3, Len(s)))
              ELSE ReplaceFences(Tail(s))
    ELSE IF Head(s) = TFence THEN ReplaceFences(Tail(s))
    ELSE <<Head(s)>> \o ReplaceFences(Tail(s))

\* String.prototype.trim: white space off both ends.
RECURSIVE TrimStart(_)
TrimStart(s) ==
    IF s # <<>> /\ Head(s) = TNewline THEN TrimStart(Tail(s)) ELSE s

RECURSIVE TrimEnd(_)
TrimEnd(s) ==
    IF s # <<>> /\ s[Len(s)] = TNewline THEN TrimEnd(SubSeq(s, 1, Len(s) - 1)) ELSE s

Trim(s) == TrimEnd(TrimStart(s))

\* A JSON.parse that reads whatever it cannot parse as the empty object.
JSONparse_lenient(s) ==
    LET body == Trim(s) IN
    IF Len(body) = 1 /\ body[1].k = "json" THEN [ok |-> TRUE, value |-> body[1].v]
    ELSE [ok |-> TRUE, value |-> [t |-> "object", members |-> << >>]]

\* JSON.parse: one complete JSON text, white space allowed around it; anything
\* else throws a SyntaxError.
JSONparse(s) ==
    LET body == Trim(s) IN
    IF Len(body) = 1 /\ body[1].k = "json" THEN [ok |-> TRUE, value |-> body[1].v]
    ELSE IF body = <<>> \/ body[Len(body)] = TCut
         THEN [ok |-> FALSE, name |-> "SyntaxError", message |-> <<"Unexpected end of JSON input">>]
    ELSE [ok |-> FALSE, name |-> "SyntaxError", message |-> <<"Unexpected token">>]

\* The tokens of a URL: a scheme, the tokens of the host, the tokens of the path.
Schemes == {"https://", "http://"}
PathTokens == {"/a", "/x"}

\* The index of the first path token of a URL, Len + 1 when it has none.
RECURSIVE FirstPath(_, _)
FirstPath(url, i) ==
    IF i > Len(url) THEN i
    ELSE IF url[i] \in PathTokens THEN i
    ELSE FirstPath(url, i + 1)

\* new URL(url): throws a TypeError unless the text is scheme, host, path.
URLparse(url) ==
    IF Len(url) >= 2 /\ url[1] \in Schemes /\ FirstPath(url, 2) > 2
    THEN [ok |-> TRUE, hostname |-> SubSeq(url, 2, FirstPath(url, 2) - 1)]
    ELSE [ok |-> FALSE, name |-> "TypeError", message |-> <<"Invalid URL">>]

\* The index of the first occurrence of "www." in a hostname, 0 when there is none.
RECURSIVE FirstWww(_, _)
FirstWww(h, i) ==
    IF i >= Len(h) THEN 0
    ELSE IF h[i] = "www" /\ h[i + 1] = "." THEN i
    ELSE FirstWww(h, i + 1)

\* hostname.replace("www.", "") (line 220): a string pattern replaces its first
\* occurrence, wherever it is.
ReplaceWww(h) ==
    LET i == FirstWww(h, 1) IN
    IF i = 0 THEN h ELSE SubSeq(h, 1, i - 1) \o SubSeq(h, i + 2, Len(h))

(***************************************************************************)
(* analyzeContent (lines 121-246)                                          *)
(***************************************************************************)
Categories == {"rumour", "insurance", "sms", "investment"}

SIGNAL_MAP ==
    << [key |-> "Fear", label |-> "Fear", color |-> "#FF3B30"],
       [key |-> "Urgency", label |-> "Urgency", color |-> "#FF9500"],
       [key |-> "Authority", label |-> "Authority", color |-> "#5856D6"],
       [key |-> "Greed", label |-> "Greed", color |-> "#34C759"],
       [key |-> "Scarcity", label |-> "Scarcity", color |-> "#AF52DE"],
       [key |-> "SocialProof", label |-> "Social Proof", color |-> "#007AFF"] >>

\* The message of the error thrown when no key is configured (line 126).
KeyMissingMessage(provider) ==
    << IF provider = "gemini" THEN "Gemini" ELSE "Perplexity",
       " API Key missing", ". Please configure it in Settings." >>

\* A check that takes only undefined for a missing key: "" and null pass.
KeyMissing_undefinedOnly(apiKey) == apiKey.t = "undefined"

\* !apiKey (line 125)
KeyMissing(apiKey) == ~Truthy(apiKey)

\* a && b
JAnd(a, b) == IF Truthy(a) THEN b ELSE a

\* A filter that asks for the uri only.
KeepChunk_uriOnly(c) == Truthy(JGet(JGet(c, "web"), "uri"))

\* c.web?.uri && c.web?.title (line 181)
KeepChunk(c) == Truthy(JAnd(JGet(JGet(c, "web"), "uri"), JGet(JGet(c, "web"), "title")))

\* groundingChunks.filter(...).map(...) (lines 179-186); no list, no sources.
GeminiSources(groundingChunks) ==
    IF ~Truthy(groundingChunks) THEN <<>>
    ELSE LET kept == SelectSeq(groundingChunks.items, KeepChunk) IN
         [i \in 1..Len(kept) |->
            [title |-> JGet(JGet(kept[i], "web"), "title"),
             uri |-> JGet(JGet(kept[i], "web"), "uri")]]

\* One citation (lines 219-222); new URL throws on a text that is no URL.
CitationSource(url) ==
    LET u == URLparse(url.toks) IN
    IF u.ok THEN [ok |-> TRUE, value |-> [title |-> JText(ReplaceWww(u.hostname)), uri |-> url]]
    ELSE u

\* data.citations.map(...) (lines 218-223): the first citation that throws ends the map.
PerplexitySources(citations) ==
    IF ~Truthy(citations) THEN [ok |-> TRUE, value |-> <<>>]
    ELSE LET each == [i \in 1..Len(citations.items) |-> CitationSource(citations.items[i])]
             bad == {i \in 1..Len(each) : ~each[i].ok}
         IN IF bad = {}
            THEN [ok |-> TRUE, value |-> [i \in 1..Len(each) |-> each[i].value]]
            ELSE each[CHOOSE i \in bad : \A j \in bad : i <= j]

\* The empty object, the text "{}".
EmptyObject == JObj(<< >>)

\* A reply text taken as it is, also when it is empty.
OrEmptyObject_asIs(text) == text

\* text || "{}" (lines 174, 213): an empty text is falsy.
OrEmptyObject(text) == IF text = << >> THEN <<TJson(EmptyObject)>> ELSE text

\* ChartData with the signal looked up under its label instead of its key.
ChartData_byLabel(json) ==
    [i \in 1..Len(SIGNAL_MAP) |->
        [name |-> SIGNAL_MAP[i].label,
         value |-> JOr(JGet(JGet(json, "radarValues"), SIGNAL_MAP[i].label), JNum(0)),
         color |-> SIGNAL_MAP[i].color]]

\* SIGNAL_MAP.map(...) (lines 227-231)
ChartData(json) ==
    [i \in 1..Len(SIGNAL_MAP) |->
        [name |-> SIGNAL_MAP[i].label,
         value |-> JOr(JGet(JGet(json, "radarValues"), SIGNAL_MAP[i].key), JNum(0)),
         color |-> SIGNAL_MAP[i].color]]

\* A mapping that returns the sources list as it is, also when it is empty.
MapToAppDomain_alwaysList(json, sources) ==
    IF json.t \in {"null", "undefined"}
    THEN [ok |-> FALSE, name |-> "TypeError", message |-> <<"Cannot read properties of null">>]
    ELSE [ok |-> TRUE,
          value |-> [score |-> JOr(JGet(json, "score"), JNum(0)),
                     riskLevel |-> JOr(JGet(json, "riskLevel"), JStr("Low")),
                     chartData |-> ChartData(json),
                     explanation |-> JOr(JGet(json, "explanation"), JStr("Analysis complete.")),
                     specificMetrics |-> JOr(JGet(json, "metrics"), JArr(<< >>)),
                     sources |-> JArr(sources)]]

\* Map to App Domain (lines 226-240); json.radarValues of null throws a TypeError.
MapToAppDomain(json, sources) ==
    IF json.t \in {"null", "undefined"}
    THEN [ok |-> FALSE, name |-> "TypeError", message |-> <<"Cannot read properties of null">>]
    ELSE [ok |-> TRUE,
          value |-> [score |-> JOr(JGet(json, "score"), JNum(0)),
                     riskLevel |-> JOr(JGet(json, "riskLevel"), JStr("Low")),
                     chartData |-> ChartData(json),
                     explanation |-> JOr(JGet(json, "explanation"), JStr("Analysis complete.")),
                     specificMetrics |-> JOr(JGet(json, "metrics"), JArr(<< >>)),
                     sources |-> IF Len(sources) > 0 THEN JArr(sources) ELSE JUndef]]

\* The Gemini branch after the call returned (lines 174-186).
GeminiBranch(r) ==
    LET parsed == JSONparse(OrEmptyObject(r.text)) IN
    IF ~parsed.ok THEN parsed
    ELSE MapToAppDomain(parsed.value, GeminiSources(r.groundingChunks))

\* response.ok: the status is in the range 200-299.
ResponseOk(r) == r.status \in 200..299

\* String(v) of what new Error is given as its message.
MessageOf(v) == IF v.t = "string" THEN <<v.s>> ELSE IF v.t = "text" THEN v.toks
                ELSE IF v.t = "number" THEN <<ToString(v.n)>>
                ELSE <<"[object Object]">>

\* An error path that reports the status alone, whatever the body says.
ErrorPath_statusOnly(r) ==
    [ok |-> FALSE, name |-> "Error", message |-> <<"API Error: ", ToString(r.status)>>]

\* The error path of the Perplexity branch (lines 207-210): the body is read
\* as JSON, {} when it is none; errorData.error of null throws a TypeError.
ErrorPath(r) ==
    LET parsed == JSONparse(r.body)
        errorData == IF parsed.ok THEN parsed.value ELSE EmptyObject
        error == JGet(errorData, "error")
        message == IF error.t \in {"null", "undefined"} THEN JUndef ELSE JGet(error, "message")
    IN IF errorData.t = "null"
       THEN [ok |-> FALSE, name |-> "TypeError",
             message |-> <<"Cannot read properties of null (reading error)">>]
       ELSE [ok |-> FALSE, name |-> "Error",
             message |-> IF Truthy(message) THEN MessageOf(message)
                         ELSE <<"API Error: ", ToString(r.status)>>]

\* The Perplexity branch after the call returned (lines 207-223).
PerplexityBranch(r) ==
    IF ~ResponseOk(r) THEN ErrorPath(r)
    ELSE
    LET parsed == JSONparse(Trim(ReplaceFences(OrEmptyObject(r.content))))
        sources == PerplexitySources(r.citations)
    IN IF ~parsed.ok THEN parsed
       ELSE IF ~sources.ok THEN sources
       ELSE MapToAppDomain(parsed.value, sources.value)

\* catch (e) { throw new Error(e.message || "Failed to parse analysis results.") }
\* (lines 242-245)
Rethrow(e) ==
    [ok |-> FALSE, name |-> "Error",
     message |-> IF e.message = << >> THEN <<"Failed to parse analysis results.">> ELSE e.message]

\* analyzeContent from the provider reply r on: the outcome of the promise.  A
\* call that is rejected (the SDK or fetch threw) goes to the catch at once.
AnalyzeReply(provider, r) ==
    LET out == IF r.settled = "rejected" THEN [ok |-> FALSE, name |-> "Error", message |-> r.message]
               ELSE IF provider = "gemini" THEN GeminiBranch(r) ELSE PerplexityBranch(r)
    IN IF out.ok THEN out ELSE Rethrow(out)

(***************************************************************************)
(* The application (lines 783-816, 869, 919) and the settings (674-679)    *)
(***************************************************************************)
NoRequest == [sent |-> FALSE]
NoReply == [kind |-> "none"]
NoAlert == << >>
NoOutcome == [settled |-> FALSE]
OcrIdle == [pc |-> "idle"]

\* The texts a view hands to onAnalyze; the button is disabled on an empty one.
Texts == {"You won a prize, pay the fee today", "Meeting moved to 3 pm"}

\* JSON.stringify of the structure the reply is to follow (lines 129-135).
jsonStructure == "{score, riskLevel, radarValues, explanation, metrics}"

\* The template of lines 137-152, the category and the structure filled in.
systemInstruction(category) ==
    << "You are RakshAI. Analyze the user's input for the category: ", category,
       "You MUST return ONLY a valid JSON object. Follow this JSON structure exactly: ",
       jsonStructure, "Definitions" >>

\* A request whose instruction also names the backend it is written for.
Request_promptPerProvider(provider, apiKey, text, category, deep) ==
    [sent |-> TRUE, provider |-> provider, apiKey |-> apiKey.s, text |-> text,
     category |-> category,
     systemInstruction |-> systemInstruction(category) \o <<provider>>,
     model |-> IF provider = "gemini"
               THEN (IF deep THEN "gemini-3-pro-preview" ELSE "gemini-3-flash-preview")
               ELSE (IF deep THEN "sonar-pro" ELSE "sonar"),
     search |-> provider = "gemini" /\ deep,
     temperature |-> IF provider = "gemini" THEN "unset" ELSE "0.2"]

\* A request that enables the search tool of Gemini on both tiers.
Request_searchAlways(provider, apiKey, text, category, deep) ==
    [sent |-> TRUE, provider |-> provider, apiKey |-> apiKey.s, text |-> text,
     category |-> category,
     systemInstruction |-> systemInstruction(category),
     model |-> IF provider = "gemini"
               THEN (IF deep THEN "gemini-3-pro-preview" ELSE "gemini-3-flash-preview")
               ELSE (IF deep THEN "sonar-pro" ELSE "sonar"),
     search |-> provider = "gemini",
     temperature |-> IF provider = "gemini" THEN "unset" ELSE "0.2"]

\* The request analyzeContent sends (lines 158-172, 190-205): the model, the
\* googleSearch tool and the temperature (Perplexity only) next to the
\* instruction and the text.
Request(provider, apiKey, text, category, deep) ==
    [sent |-> TRUE, provider |-> provider, apiKey |-> apiKey.s, text |-> text,
     category |-> category,
     systemInstruction |-> systemInstruction(category),
     model |-> IF provider = "gemini"
               THEN (IF deep THEN "gemini-3-pro-preview" ELSE "gemini-3-flash-preview")
               ELSE (IF deep THEN "sonar-pro" ELSE "sonar"),
     search |-> provider = "gemini" /\ deep,
     temperature |-> IF provider = "gemini" THEN "unset" ELSE "0.2"]

\* e.message.includes("API Key missing") (line 809)
IncludesKeyMissing(message) == \E i \in 1..Len(message) : message[i] = " API Key missing"

\* A catch without the finally: the busy flag stays set after an error.
AnalyzeFailed_noFinally(e) ==
    /\ showSettings' = (IncludesKeyMissing(e.message) \/ showSettings)
    /\ alertMsg' = e.message
    /\ isAnalyzing' = TRUE
    /\ pc' = "idle"

\* The catch and finally of handleAnalyze (lines 807-815) on the error e.
\* alert(e.message || ...): the messages analyzeContent throws are never empty.
AnalyzeFailed(e) ==
    /\ showSettings' = (IncludesKeyMissing(e.message) \/ showSettings)
    /\ alertMsg' = e.message
    /\ isAnalyzing' = FALSE
    /\ pc' = "idle"

\* A handleAnalyze that leaves the previous result displayed while it runs.
HandleAnalyze_keepsResult(text) ==
    /\ ~isAnalyzing
    /\ LET provider == getProvider(localStorage)
           apiKey == getApiKey(provider, localStorage, importMetaEnv, processEnv)
       IN IF KeyMissing(apiKey)
          THEN /\ AnalyzeFailed([message |-> KeyMissingMessage(provider)])
               /\ req' = NoRequest
               /\ calls' = 0
          ELSE /\ isAnalyzing' = TRUE
               /\ pc' = "awaiting"
               /\ req' = Request(provider, apiKey, text, activeCategory, isDeep)
               /\ calls' = 1
               /\ alertMsg' = NoAlert
               /\ UNCHANGED showSettings
    /\ reply' = NoReply
    /\ UNCHANGED <<localStorage, importMetaEnv, processEnv, activeCategory, isDeep,
                   result, ocr, ocrCalls, ocrOutcome>>

\* A handleAnalyze behind a button that isAnalyzing does not disable.
HandleAnalyze_buttonEnabled(text) ==
    /\ LET provider == getProvider(localStorage)
           apiKey == getApiKey(provider, localStorage, importMetaEnv, processEnv)
       IN IF KeyMissing(apiKey)
          THEN /\ AnalyzeFailed([message |-> KeyMissingMessage(provider)])
               /\ req' = NoRequest
               /\ calls' = 0
          ELSE /\ isAnalyzing' = TRUE
               /\ pc' = "awaiting"
               /\ req' = Request(provider, apiKey, text, activeCategory, isDeep)
               /\ calls' = 1
               /\ alertMsg' = NoAlert
               /\ UNCHANGED showSettings
    /\ result' = JNull
    /\ reply' = NoReply
    /\ UNCHANGED <<localStorage, importMetaEnv, processEnv, activeCategory, isDeep,
                   ocr, ocrCalls, ocrOutcome>>

\* handleAnalyze up to the first await of analyzeContent (lines 801-805 and
\* 121-127, then 158-172 or 190-205): without a key the promise is rejected at
\* once and the catch runs before any other event; with one the provider call
\* is issued and the handler is suspended.  The button that calls it is
\* disabled while isAnalyzing is set (lines 526, 572, 608, 652).
HandleAnalyze(text) ==
    /\ ~isAnalyzing
    /\ LET provider == getProvider(localStorage)
           apiKey == getApiKey(provider, localStorage, importMetaEnv, processEnv)
       IN IF KeyMissing(apiKey)
          THEN /\ AnalyzeFailed([message |-> KeyMissingMessage(provider)])
               /\ req' = NoRequest
               /\ calls' = 0
          ELSE /\ isAnalyzing' = TRUE
               /\ pc' = "awaiting"
               /\ req' = Request(provider, apiKey, text, activeCategory, isDeep)
               /\ calls' = 1
               /\ alertMsg' = NoAlert
               /\ UNCHANGED showSettings
    /\ result' = JNull
    /\ reply' = NoReply
    /\ UNCHANGED <<localStorage, importMetaEnv, processEnv, activeCategory, isDeep,
                   ocr, ocrCalls, ocrOutcome>>

\* A continuation that clears the busy flag after an error only.
ReceiveReply_noFinally(r) ==
    /\ pc = "awaiting"
    /\ r.kind = req.provider
    /\ reply' = r
    /\ LET out == AnalyzeReply(req.provider, r) IN
       IF out.ok
       THEN /\ result' = out.value
            /\ pc' = "idle"
            /\ UNCHANGED <<isAnalyzing, showSettings, alertMsg>>
       ELSE AnalyzeFailed(out) /\ UNCHANGED result
    /\ UNCHANGED <<localStorage, importMetaEnv, processEnv, activeCategory, isDeep,
                   req, calls, ocr, ocrCalls, ocrOutcome>>

\* A continuation that issues the provider call once more when the first one
\* failed.
ReceiveReply_retry(r) ==
    /\ pc = "awaiting"
    /\ r.kind = req.provider
    /\ reply' = r
    /\ LET out == AnalyzeReply(req.provider, r) IN
       IF out.ok
       THEN /\ result' = out.value
            /\ isAnalyzing' = FALSE
            /\ pc' = "idle"
            /\ UNCHANGED <<showSettings, alertMsg, calls>>
       ELSE IF calls < 2
       THEN /\ calls' = calls + 1
            /\ UNCHANGED <<result, isAnalyzing, pc, showSettings, alertMsg>>
       ELSE AnalyzeFailed(out) /\ UNCHANGED <<result, calls>>
    /\ UNCHANGED <<localStorage, importMetaEnv, processEnv, activeCategory, isDeep,
                   req, ocr, ocrCalls, ocrOutcome>>

\* A continuation that asks the settings for the provider again when the call
\* returns.
ReceiveReply_rereadProvider(r) ==
    /\ pc = "awaiting"
    /\ r.kind = getProvider(localStorage)
    /\ reply' = r
    /\ LET out == AnalyzeReply(getProvider(localStorage), r) IN
       IF out.ok
       THEN /\ result' = out.value
            /\ isAnalyzing' = FALSE
            /\ pc' = "idle"
            /\ UNCHANGED <<showSettings, alertMsg>>
       ELSE AnalyzeFailed(out) /\ UNCHANGED result
    /\ UNCHANGED <<localStorage, importMetaEnv, processEnv, activeCategory, isDeep,
                   req, calls, ocr, ocrCalls, ocrOutcome>>

\* The provider call returns r: the rest of analyzeContent (lines 174-246) and
\* of handleAnalyze (lines 806-815).
ReceiveReply(r) ==
    /\ pc = "awaiting"
    /\ r.kind = req.provider
    /\ reply' = r
    /\ LET out == AnalyzeReply(req.provider, r) IN
       IF out.ok
       THEN /\ result' = out.value
            /\ isAnalyzing' = FALSE
            /\ pc' = "idle"
            /\ UNCHANGED <<showSettings, alertMsg>>
       ELSE AnalyzeFailed(out) /\ UNCHANGED result
    /\ UNCHANGED <<localStorage, importMetaEnv, processEnv, activeCategory, isDeep,
                   req, calls, ocr, ocrCalls, ocrOutcome>>

\* A category button or tab (lines 869, 919).
SelectCategory(c) ==
    /\ activeCategory' = c
    /\ result' = JNull
    /\ UNCHANGED <<localStorage, importMetaEnv, processEnv, isDeep, isAnalyzing,
                   showSettings, pc, req, calls, reply, alertMsg, ocr, ocrCalls, ocrOutcome>>

\* The logic tier toggle (lines 878, 912).
ToggleDeep ==
    /\ isDeep' = ~isDeep
    /\ UNCHANGED <<localStorage, importMetaEnv, processEnv, activeCategory, isAnalyzing,
                   result, showSettings, pc, req, calls, reply, alertMsg, ocr, ocrCalls,
                   ocrOutcome>>

\* The settings button (line 879) and the closing of the dialog (lines 682, 684).
SetShowSettings(b) ==
    /\ showSettings # b
    /\ showSettings' = b
    /\ UNCHANGED <<localStorage, importMetaEnv, processEnv, activeCategory, isDeep,
                   isAnalyzing, result, pc, req, calls, reply, alertMsg, ocr, ocrCalls,
                   ocrOutcome>>

\* SettingsModal.handleSave (lines 674-679) with what the dialog holds.
handleSave(provider, perplexityKey, geminiKey) ==
    /\ showSettings
    /\ localStorage' = [n \in {"AI_PROVIDER", "PERPLEXITY_API_KEY", "GEMINI_API_KEY"} |->
                          CASE n = "AI_PROVIDER" -> provider
                            [] n = "PERPLEXITY_API_KEY" -> perplexityKey
                            [] n = "GEMINI_API_KEY" -> geminiKey]
    /\ showSettings' = FALSE
    /\ UNCHANGED <<importMetaEnv, processEnv, activeCategory, isDeep, isAnalyzing, result,
                   pc, req, calls, reply, alertMsg, ocr, ocrCalls, ocrOutcome>>

(***************************************************************************)
(* performOCR (lines 248-282)                                              *)
(***************************************************************************)
appState == <<activeCategory, isDeep, isAnalyzing, result, showSettings, pc, req, calls,
              reply, alertMsg>>

\* throw new Error("Image analysis failed: " + e.message) (lines 270-273)
OcrFailed(message) ==
    [settled |-> TRUE, ok |-> FALSE, message |-> <<"Image analysis failed: ">> \o message]

\* A performOCR that takes the Gemini branch whenever a Gemini key is
\* configured, whatever the provider.
PerformOCR_byKey ==
    /\ ocr.pc = "idle"
    /\ ocrCalls' = 0
    /\ LET apiKey == getApiKey("gemini", localStorage, importMetaEnv, processEnv) IN
       IF ~KeyMissing(apiKey)
       THEN /\ ocrOutcome' = NoOutcome
            /\ ocr' = [pc |-> "reading", provider |-> "gemini", apiKey |-> apiKey.s]
       ELSE /\ ocrOutcome' = NoOutcome
            /\ ocr' = [pc |-> "timer", provider |-> getProvider(localStorage)]
    /\ UNCHANGED <<localStorage, importMetaEnv, processEnv, appState>>

\* A performOCR that answers a missing key with an empty text.
PerformOCR_silent ==
    /\ ocr.pc = "idle"
    /\ ocrCalls' = 0
    /\ LET provider == getProvider(localStorage) IN
       IF provider = "gemini"
       THEN LET apiKey == getApiKey("gemini", localStorage, importMetaEnv, processEnv) IN
            IF KeyMissing(apiKey)
            THEN /\ ocrOutcome' = [settled |-> TRUE, ok |-> TRUE, text |-> ""]
                 /\ ocr' = OcrIdle
            ELSE /\ ocrOutcome' = NoOutcome
                 /\ ocr' = [pc |-> "reading", provider |-> provider, apiKey |-> apiKey.s]
       ELSE /\ ocrOutcome' = NoOutcome
            /\ ocr' = [pc |-> "timer", provider |-> provider]
    /\ UNCHANGED <<localStorage, importMetaEnv, processEnv, appState>>

\* performOCR up to its first suspension: the Gemini branch reads the key and
\* starts to read the file, any other provider starts the 500 ms timer.
PerformOCR ==
    /\ ocr.pc = "idle"
    /\ ocrCalls' = 0
    /\ LET provider == getProvider(localStorage) IN
       IF provider = "gemini"
       THEN LET apiKey == getApiKey("gemini", localStorage, importMetaEnv, processEnv) IN
            IF KeyMissing(apiKey)
            THEN /\ ocrOutcome' = OcrFailed(<<"Gemini API Key required for Image Analysis.">>)
                 /\ ocr' = OcrIdle
            ELSE /\ ocrOutcome' = NoOutcome
                 /\ ocr' = [pc |-> "reading", provider |-> provider, apiKey |-> apiKey.s]
       ELSE /\ ocrOutcome' = NoOutcome
            /\ ocr' = [pc |-> "timer", provider |-> provider]
    /\ UNCHANGED <<localStorage, importMetaEnv, processEnv, appState>>

\* fileToBase64 settles (lines 106-118, 257): read, and the Gemini call is
\* issued (lines 259-267), or the reader failed with an event that has no message.
OcrFileRead(readOk) ==
    /\ ocr.pc = "reading"
    /\ IF readOk
       THEN /\ ocr' = [ocr EXCEPT !.pc = "awaiting"]
            /\ ocrCalls' = ocrCalls + 1
            /\ UNCHANGED ocrOutcome
       ELSE /\ ocr' = OcrIdle
            /\ ocrOutcome' = OcrFailed(<<"undefined">>)
            /\ UNCHANGED ocrCalls
    /\ UNCHANGED <<localStorage, importMetaEnv, processEnv, appState>>

\* The Gemini image call settles: response.text || "" (line 269), or the SDK threw.
OcrReply(r) ==
    /\ ocr.pc = "awaiting"
    /\ ocr' = OcrIdle
    /\ ocrOutcome' = IF r.ok
                     THEN [settled |-> TRUE, ok |-> TRUE, text |-> JOr(r.text, JStr("")).s]
                     ELSE OcrFailed(r.message)
    /\ UNCHANGED <<localStorage, importMetaEnv, processEnv, appState, ocrCalls>>

\* The timer of the stub fires (lines 276-280).
OcrTimer ==
    /\ ocr.pc = "timer"
    /\ ocr' = OcrIdle
    /\ ocrOutcome' = [settled |-> TRUE, ok |-> FALSE,
                      message |-> <<"Image analysis requires Gemini provider",
                                    ". Please switch in Settings.">>]
    /\ UNCHANGED <<localStorage, importMetaEnv, processEnv, appState, ocrCalls>>

\* What the Gemini image call can answer.
OcrReplies ==
    { [ok |-> TRUE, text |-> JStr("PAY THE FEE TODAY")],
      [ok |-> TRUE, text |-> JUndef],
      [ok |-> FALSE, message |-> <<"Request failed">>] }

(***************************************************************************)
(* The inputs: stored settings, environments, provider replies             *)
(***************************************************************************)
MaxSignals == 2
MaxChunks == 2
MaxCitations == 2

ItemNames == {"AI_PROVIDER", "PERPLEXITY_API_KEY", "GEMINI_API_KEY"}

\* What an item can hold: handleSave writes a provider, and a key or "".
ItemValues(n) ==
    CASE n = "AI_PROVIDER" -> Providers
      [] n = "PERPLEXITY_API_KEY" -> {"", "pplx-local"}
      [] n = "GEMINI_API_KEY" -> {"", "gem-local"}

\* Every content of localStorage: any of the items, each with one of its values.
Storages ==
    UNION { {f \in [S -> UNION {ItemValues(n) : n \in ItemNames}] :
                \A n \in S : f[n] \in ItemValues(n)} : S \in SUBSET ItemNames }

NoItems == [n \in {} |-> ""]

NoEnv == [present |-> FALSE, vars |-> [n \in {} |-> ""]]
EmptyEnv == [present |-> TRUE, vars |-> [n \in {} |-> ""]]
ViteKeys ==
    [present |-> TRUE,
     vars |-> [n \in {"VITE_PERPLEXITY_API_KEY", "VITE_GEMINI_API_KEY"} |->
                 IF n = "VITE_GEMINI_API_KEY" THEN "gem-vite" ELSE "pplx-vite"]]
ProcessKeys ==
    [present |-> TRUE,
     vars |-> [n \in {"PERPLEXITY_API_KEY", "GEMINI_API_KEY"} |->
                 IF n = "GEMINI_API_KEY" THEN "gem-process" ELSE "pplx-process"]]

MetaEnvs == {NoEnv, EmptyEnv, ViteKeys}
ProcessEnvs == {NoEnv, EmptyEnv, ProcessKeys}

Member(k, v) == [key |-> k, val |-> v]
Present(m) == m.val.t # "undefined"

\* The JSON object with the given fields; a field that is undefined is left out.
Payload(score, riskLevel, radarValues, explanation, metrics) ==
    JObj(SelectSeq(<< Member("score", score), Member("riskLevel", riskLevel),
                      Member("radarValues", radarValues),
                      Member("explanation", explanation),
                      Member("metrics", metrics) >>, Present))

SignalKeys == {SIGNAL_MAP[i].key : i \in 1..Len(SIGNAL_MAP)}
RiskLevels == {"Low", "Medium", "High", "Critical"}

ScoreInputs == {JUndef} \cup {JNum(n) : n \in {-5, 0, 42, 100, 140}}
RiskInputs == {JUndef} \cup {JStr(l) : l \in {"Low", "High", "Critical", "Severe"}}
ExplanationInputs == {JUndef, JStr("Pressure to pay a fee at once.")}
MetricsInputs ==
    {JUndef, JArr(<<[label |-> "Sender", value |-> "unknown", status |-> "bad"]>>)}

\* Signal maps as the reply lists them: up to MaxSignals members, in any order,
\* a key possibly twice.
RadarMembers == {Member(k, JNum(v)) : k \in SignalKeys, v \in {15, 80}}
RadarInputs ==
    {JUndef} \cup {JObj(m) : m \in UNION {[1..n -> RadarMembers] : n \in 0..MaxSignals}}

SampleRadar == JObj(<<Member("Urgency", JNum(80))>>)
SamplePayload ==
    Payload(JNum(42), JStr("High"), SampleRadar, JStr("Pressure to pay a fee at once."), JUndef)

\* Payloads with fields of another shape than the structure asks for: a score
\* and a signal value in words, a signal map that is a string, an explanation
\* that is a number, metrics that are a string.
MisshapenPayloads ==
    {Payload(sc, JStr("High"), rv, ex, me) :
        sc \in {JNum(42), JStr("high")},
        rv \in {SampleRadar, JStr("none"), JObj(<<Member("Fear", JStr("lots"))>>)},
        ex \in {JStr("Pressure to pay a fee at once."), JNum(7)},
        me \in {JUndef, JStr("n/a")}}

\* The payloads: every score, risk level, explanation and metrics with and
\* without a signal map, every signal map with the sample fields, the
\* misshapen payloads, and the JSON text null.
Payloads ==
    {Payload(sc, rl, rv, ex, me) :
        sc \in ScoreInputs, rl \in RiskInputs, rv \in {JUndef, SampleRadar},
        ex \in ExplanationInputs, me \in MetricsInputs}
    \cup {Payload(JNum(42), JStr("High"), rv, JUndef, JUndef) : rv \in RadarInputs}
    \cup MisshapenPayloads
    \cup {JNull}

\* What may stand before and after the payload in a reply text.
Prefixes ==
    { << >>, <<TFenceJson, TNewline>>, <<TFenceJson>>, <<TFence, TNewline>>,
      <<TFence, TWord("javascript"), TNewline>>, <<TWord("Here is the analysis:"), TNewline>> }
Suffixes == { << >>, <<TNewline, TFence>>, <<TFence>>, <<TNewline>> }
Bodies == { <<TJson(SamplePayload)>>, <<TJson(EmptyObject)>>, <<TCut>>, << >> }

PlainTexts == {<<TJson(p)>> : p \in Payloads}
WrappedTexts == {pre \o body \o post : pre \in Prefixes, body \in Bodies, post \in Suffixes}

\* Grounding chunks: without web, or with a web that has or lacks a uri and a title.
GroundingChunk(uri, title) ==
    JObj(<<Member("web", JObj(SelectSeq(<<Member("uri", uri), Member("title", title)>>,
                                       Present)))>>)
Chunks ==
    { JObj(<< >>),
      GroundingChunk(JStr("https://a.example/1"), JStr("Alpha")),
      GroundingChunk(JStr("https://b.example/2"), JStr("Beta")),
      GroundingChunk(JStr("https://a.example/1"), JUndef),
      GroundingChunk(JUndef, JStr("Alpha")),
      GroundingChunk(JStr("https://a.example/1"), JStr("")),
      GroundingChunk(JStr(""), JStr("Beta")) }
ChunkLists ==
    {JUndef} \cup {JArr(c) : c \in UNION {[1..n -> Chunks] : n \in 0..MaxChunks}}

\* Citation URLs by their tokens; the last one is no URL.
Urls ==
    { JText(<<"https://", "www", ".", "example", ".", "com", "/a">>),
      JText(<<"https://", "news", ".", "site", ".", "org", "/x">>),
      JText(<<"https://", "api", ".", "www", ".", "example", ".", "com", "/a">>),
      JText(<<"http://", "my", "www", ".", "example", ".", "com">>),
      JText(<<"see the attached report">>) }
CitationLists ==
    {JUndef} \cup {JArr(c) : c \in UNION {[1..n -> Urls] : n \in 0..MaxCitations}}

GeminiReply(text, chunks) ==
    [kind |-> "gemini", settled |-> "fulfilled", text |-> text, groundingChunks |-> chunks]
PerplexityReply(content, citations) ==
    [kind |-> "perplexity", settled |-> "fulfilled", status |-> 200, content |-> content,
     citations |-> citations]

\* The call was rejected: the SDK threw, or fetch failed to reach the endpoint.
Rejected(kind, message) == [kind |-> kind, settled |-> "rejected", message |-> message]

\* The Perplexity endpoint answered with an error status and a body.
HttpError(status, body) ==
    [kind |-> "perplexity", settled |-> "fulfilled", status |-> status, body |-> body]

SampleChunks == JArr(<<GroundingChunk(JStr("https://a.example/1"), JStr("Alpha"))>>)
SampleCitations == JArr(<<JText(<<"https://", "www", ".", "example", ".", "com", "/a">>)>>)

\* The replies the normalisation is checked on.
Replies ==
    {GeminiReply(t, JUndef) : t \in PlainTexts}
    \cup {GeminiReply(t, c) : t \in WrappedTexts, c \in {JUndef, SampleChunks}}
    \cup {GeminiReply(<<TJson(SamplePayload)>>, c) : c \in ChunkLists}
    \cup {PerplexityReply(t, JUndef) : t \in PlainTexts}
    \cup {PerplexityReply(t, c) : t \in WrappedTexts, c \in {JUndef, SampleCitations}}
    \cup {PerplexityReply(<<TJson(SamplePayload)>>, c) : c \in CitationLists}

\* The error object of an error body, and the bodies an error status comes with:
\* an error with and without a message, no error, the JSON text null, a text
\* that is no JSON, no body at all, an analysis payload.  One message is given
\* by its tokens: it holds the words handleAnalyze looks for (line 809).
ErrorBody(error) == <<TJson(JObj(<<Member("error", error)>>))>>
ErrorBodies ==
    { ErrorBody(JObj(<<Member("message", JStr("Invalid API key provided."))>>)),
      ErrorBody(JObj(<<Member("message", JText(<<"Unauthorized:", " API Key missing">>))>>)),
      ErrorBody(JObj(<<Member("message", JStr("")), Member("type", JStr("rate_limit"))>>)),
      ErrorBody(JObj(<<Member("code", JNum(7))>>)),
      ErrorBody(JNull),
      ErrorBody(JStr("overloaded")),
      <<TJson(EmptyObject)>>,
      <<TJson(JNull)>>,
      <<TWord("<html>502 Bad Gateway</html>")>>,
      << >>,
      <<TJson(SamplePayload)>> }
ErrorStatuses == {401, 429, 500}

\* The ways a provider call fails.
FailureReplies ==
    { Rejected("gemini", <<"got status: 503 UNAVAILABLE">>),
      Rejected("gemini", << >>),
      Rejected("perplexity", <<"Failed to fetch">>) }
    \cup {HttpError(st, b) : st \in ErrorStatuses, b \in ErrorBodies}

\* The replies the application is run on.
AppReplies ==
    { GeminiReply(<<TJson(SamplePayload)>>, SampleChunks),
      GeminiReply(<<TCut>>, JUndef),
      PerplexityReply(<<TFenceJson, TNewline, TJson(SamplePayload), TNewline, TFence>>,
                      SampleCitations),
      PerplexityReply(<<TCut>>, JUndef) }

(***************************************************************************)
(* Specifications                                                          *)
(***************************************************************************)
Idle ==
    /\ activeCategory = "rumour"
    /\ isDeep = FALSE
    /\ isAnalyzing = FALSE
    /\ result = JNull
    /\ showSettings = FALSE
    /\ pc = "idle"
    /\ req = NoRequest
    /\ calls = 0
    /\ reply = NoReply
    /\ alertMsg = NoAlert
    /\ ocr = OcrIdle
    /\ ocrCalls = 0
    /\ ocrOutcome = NoOutcome

\* The application in a browser: a fresh localStorage, the build's environment.
Init ==
    /\ localStorage = NoItems
    /\ importMetaEnv \in {EmptyEnv, ViteKeys}
    /\ processEnv = NoEnv
    /\ Idle

\* The image input is disabled unless the provider is Gemini (lines 300-314).
UploadImage == getProvider(localStorage) = "gemini" /\ PerformOCR

Next ==
    \/ \E text \in Texts : HandleAnalyze(text)
    \/ \E r \in AppReplies : ReceiveReply(r)
    \/ \E c \in Categories : SelectCategory(c)
    \/ ToggleDeep
    \/ \E b \in BOOLEAN : SetShowSettings(b)
    \/ \E p \in Providers, pk \in ItemValues("PERPLEXITY_API_KEY"),
          gk \in ItemValues("GEMINI_API_KEY") : handleSave(p, pk, gk)
    \/ UploadImage
    \/ \E readOk \in BOOLEAN : OcrFileRead(readOk)
    \/ \E r \in OcrReplies : OcrReply(r)

Spec == Init /\ [][Next]_vars

\* The configuration helpers and the start of both operations on every stored
\* setting and environment.
InitConfig ==
    /\ localStorage \in Storages
    /\ importMetaEnv \in MetaEnvs
    /\ processEnv \in ProcessEnvs
    /\ Idle

NextConfig ==
    \/ \E text \in Texts : HandleAnalyze(text)
    \/ \E c \in Categories : SelectCategory(c)
    \/ ToggleDeep
    \/ PerformOCR
    \/ \E readOk \in BOOLEAN : OcrFileRead(readOk)
    \/ \E r \in OcrReplies : OcrReply(r)
    \/ OcrTimer

SpecConfig == InitConfig /\ [][NextConfig]_vars

\* The normalisation of a reply, on every reply of Replies, with a key stored
\* for the provider.
InitNormalize ==
    /\ \E p \in Providers :
          localStorage = [n \in ItemNames |->
                            CASE n = "AI_PROVIDER" -> p
                              [] n = "PERPLEXITY_API_KEY" -> "pplx-local"
                              [] n = "GEMINI_API_KEY" -> "gem-local"]
    /\ importMetaEnv = EmptyEnv
    /\ processEnv = NoEnv
    /\ Idle

NextNormalize ==
    \/ \E text \in Texts : HandleAnalyze(text)
    \/ \E r \in Replies : ReceiveReply(r)

SpecNormalize == InitNormalize /\ [][NextNormalize]_vars

\* One analyze request from its start to its end, on every stored setting and
\* environment, with every way the provider call can fail.
NextRequest ==
    \/ \E text \in Texts : HandleAnalyze(text)
    \/ \E r \in AppReplies \cup FailureReplies : ReceiveReply(r)

SpecRequest == InitConfig /\ [][NextRequest]_vars

\* The provider call of the analysis in flight completes, with a reply or a
\* failure.
Completes == \E r \in AppReplies \cup FailureReplies : ReceiveReply(r)

\* The analyses of a configured application, with category switches and tier
\* toggles during a request and every way the provider call can end, under the
\* assumption that a provider call that was issued completes.
NextLive ==
    \/ \E text \in Texts : HandleAnalyze(text)
    \/ Completes
    \/ \E c \in Categories : SelectCategory(c)
    \/ ToggleDeep

SpecLive == InitNormalize /\ [][NextLive]_vars /\ WF_vars(Completes)

(***************************************************************************)
(* Properties                                                              *)
(***************************************************************************)
\* The text of a reply, and the JSON value it carries when it carries one.
ReplyText(r) == IF r.kind = "gemini" THEN r.text ELSE r.content
IsJsonToken(tok) == tok.k = "json"
JsonTokens(r) == SelectSeq(ReplyText(r), IsJsonToken)
PayloadOf(r) == JsonTokens(r)[1].v

\* The last analysis ended with a result, which is still displayed.
Succeeded == pc = "idle" /\ reply # NoReply /\ result # JNull

Clamp(n) == IF n > 100 THEN 100 ELSE IF n < 0 THEN 0 ELSE n

\* C1: the score of a returned AnalysisResult lies in [0,100]: a payload score
\* above 100 yields 100, one below 0 yields 0, one inside the range is unchanged.
C1_ScoreClamped ==
    (Succeeded /\ Len(JsonTokens(reply)) = 1) =>
        /\ result.score.t = "number"
        /\ result.score.n \in 0..100
        /\ LET s == JGet(PayloadOf(reply), "score") IN
           s.t = "number" => result.score = JNum(Clamp(s.n))

\* The fixed order of the signals, and the name each is displayed under.
SignalOrder == <<"Fear", "Urgency", "Authority", "Greed", "Scarcity", "SocialProof">>
DisplayName(key) == IF key = "SocialProof" THEN "Social Proof" ELSE key

\* The values the signal map of a payload lists for a key.
ListedFor(payload, key) ==
    LET rv == JGet(payload, "radarValues") IN
    IF rv.t = "object"
    THEN {rv.members[i].val : i \in {j \in 1..Len(rv.members) : rv.members[j].key = key}}
    ELSE {}

\* C2: the signal series of a result has exactly six entries, in the order Fear,
\* Urgency, Authority, Greed, Scarcity, SocialProof, whatever the order of the
\* keys in the payload and whichever are missing; an entry holds the payload's
\* value for its key, and 0 when the key or the whole signal map is absent.
C2_SignalSeries ==
    (Succeeded /\ Len(JsonTokens(reply)) = 1) =>
        /\ Len(result.chartData) = 6
        /\ \A i \in 1..6 :
              /\ result.chartData[i].name = DisplayName(SignalOrder[i])
              /\ LET listed == ListedFor(PayloadOf(reply), SignalOrder[i]) IN
                 IF listed = {} THEN result.chartData[i].value = JNum(0)
                 ELSE result.chartData[i].value \in listed

\* C2's case: a payload that lists SocialProof before Fear and nothing else.
C2_Witness ==
    /\ Succeeded
    /\ Len(JsonTokens(reply)) = 1
    /\ JGet(PayloadOf(reply), "radarValues")
          = JObj(<<Member("SocialProof", JNum(80)), Member("Fear", JNum(15))>>)
    /\ result.chartData[1].value = JNum(15)
    /\ result.chartData[2].value = JNum(0)
    /\ result.chartData[6].value = JNum(80)

\* The last analysis received its reply and ended.
Settled == pc = "idle" /\ reply # NoReply

\* How the last analysis ended, and an outcome of analyzeContent in the same form.
StateOutcome ==
    IF result # JNull THEN [ok |-> TRUE, value |-> result]
    ELSE [ok |-> FALSE, message |-> alertMsg]
Outcome(out) ==
    IF out.ok THEN [ok |-> TRUE, value |-> out.value]
    ELSE [ok |-> FALSE, message |-> out.message]

\* The reply r with its text replaced.
WithText(r, text) ==
    IF r.kind = "gemini" THEN [r EXCEPT !.text = text] ELSE [r EXCEPT !.content = text]

\* Code-fence markup around a text: an opening fence, tagged json or untagged,
\* with or without a line break, and a closing fence.
JsonFencePrefixes == { <<TFenceJson, TNewline>>, <<TFenceJson>>, <<TFence, TNewline>> }
FenceSuffixes == { <<TNewline, TFence>>, <<TFence>> }

NotMarkup(tok) == tok \notin {TFenceJson, TFence, TNewline}
Core(text) == SelectSeq(text, NotMarkup)

\* A reply text that is not one JSON text, fences stripped (the empty reply
\* text is read as the empty object).
Malformed(text) == text # << >> /\ ~(Len(Core(text)) = 1 /\ Core(text)[1].k = "json")

\* The messages of the SyntaxError JSON.parse throws.
ParseErrorMessages == { <<"Unexpected end of JSON input">>, <<"Unexpected token">> }

\* C4: when the reply text is not valid JSON after fence-stripping the analysis
\* fails with a parse error and no result, full or partial, is displayed.
C4_MalformedFails ==
    (Settled /\ Malformed(ReplyText(reply))) =>
        /\ result = JNull
        /\ alertMsg \in ParseErrorMessages
        /\ ~isAnalyzing

\* C4's case: a truncated payload arrived and the analysis failed.
C4_Witness ==
    /\ Settled
    /\ ReplyText(reply) = <<TFenceJson, TNewline, TCut>>
    /\ result = JNull
    /\ alertMsg = <<"Unexpected end of JSON input">>

\* The value a source of credentials holds for a provider, "" when it holds none.
StoredKey(provider) ==
    IF KeyName(provider) \in DOMAIN localStorage THEN localStorage[KeyName(provider)] ELSE ""
ViteKey(provider) ==
    IF importMetaEnv.present /\ ViteName(KeyName(provider)) \in DOMAIN importMetaEnv.vars
    THEN importMetaEnv.vars[ViteName(KeyName(provider))] ELSE ""
ProcessKey(provider) ==
    IF processEnv.present /\ KeyName(provider) \in DOMAIN processEnv.vars
    THEN processEnv.vars[KeyName(provider)] ELSE ""

\* No source holds a credential for the provider.
NoCredential(provider) ==
    StoredKey(provider) = "" /\ ViteKey(provider) = "" /\ ProcessKey(provider) = ""

\* C5: when no credential is configured for the active provider, an analysis
\* fails with the missing-key error and issues no network call, for every
\* text, category and depth tier.
C5_NoKeyNoCall ==
    [][ (NoCredential(getProvider(localStorage)) /\ \E text \in Texts : HandleAnalyze(text)) =>
            /\ IncludesKeyMissing(alertMsg')
            /\ alertMsg' = KeyMissingMessage(getProvider(localStorage))
            /\ calls' = 0
            /\ req' = NoRequest
            /\ pc' = "idle"
            /\ result' = JNull ]_vars

\* C5's case: Perplexity is active with no key anywhere (the stored key is ""),
\* a Gemini key is stored, the deep tier and another category are chosen, and
\* the analysis failed without a call.
C5_Witness ==
    /\ getProvider(localStorage) = "perplexity"
    /\ NoCredential("perplexity")
    /\ "PERPLEXITY_API_KEY" \in DOMAIN localStorage
    /\ StoredKey("gemini") # ""
    /\ isDeep
    /\ activeCategory = "sms"
    /\ IncludesKeyMissing(alertMsg)
    /\ calls = 0
    /\ pc = "idle"

\* The message of the error of the Perplexity stub names Gemini.
NamesGemini(message) ==
    \E i \in 1..Len(message) : message[i] = "Image analysis requires Gemini provider"

\* C6: with Perplexity active, performOCR fails with the error that names
\* Gemini and attempts no network call before or after, whatever keys are
\* configured.
C6_OcrNeedsGemini ==
    getProvider(localStorage) = "perplexity" =>
        /\ ocrCalls = 0
        /\ ocr.pc \in {"idle", "timer"}
        /\ ocrOutcome.settled => (~ocrOutcome.ok /\ NamesGemini(ocrOutcome.message))

\* C6's case: both keys are stored, Perplexity is active, and an OCR call failed.
C6_Witness ==
    /\ getProvider(localStorage) = "perplexity"
    /\ StoredKey("perplexity") # ""
    /\ StoredKey("gemini") # ""
    /\ ocrOutcome.settled
    /\ ~ocrOutcome.ok
    /\ NamesGemini(ocrOutcome.message)
    /\ ocrCalls = 0

\* The first value found in the order localStorage, VITE_<key>, <key>.
FirstFound(provider) ==
    IF StoredKey(provider) # "" THEN StoredKey(provider)
    ELSE IF ViteKey(provider) # "" THEN ViteKey(provider)
    ELSE ProcessKey(provider)

\* C7: getApiKey returns the first value found in the order localStorage,
\* build-time variable VITE_<key>, process variable <key>, and nothing when
\* none holds a value: an analysis sends that key, and fails for a missing key
\* only when there is none.
C7_ResolutionOrder ==
    LET provider == getProvider(localStorage) IN
    /\ pc = "awaiting" => req.apiKey = FirstFound(provider)
    /\ IncludesKeyMissing(alertMsg) => FirstFound(provider) = ""

\* C8: the riskLevel of a result is one of Low, Medium, High, Critical, and it
\* is Low when the payload's riskLevel is missing or is none of the four.
C8_RiskLevelEnum ==
    (Succeeded /\ Len(JsonTokens(reply)) = 1) =>
        LET rl == JGet(PayloadOf(reply), "riskLevel") IN
        /\ result.riskLevel \in {JStr(l) : l \in RiskLevels}
        /\ rl \notin {JStr(l) : l \in RiskLevels} => result.riskLevel = JStr("Low")

\* The hostname of a URL, and the hostname without a leading "www." label.
HostOf(url) == URLparse(url.toks).hostname
WithoutLeadingWww(h) ==
    IF Len(h) >= 2 /\ h[1] = "www" /\ h[2] = "." THEN SubSeq(h, 3, Len(h)) ELSE h

\* C9: for a flat citation list the sources are one (title, uri) per URL in
\* the list's order, the uri being the URL and the title its hostname with a
\* leading "www." label removed; a "www." elsewhere in the hostname is kept.
C9_CitationTitles ==
    (Succeeded /\ reply.kind = "perplexity" /\ reply.citations.t = "array"
       /\ Len(reply.citations.items) > 0) =>
        /\ result.sources.t = "array"
        /\ Len(result.sources.items) = Len(reply.citations.items)
        /\ \A i \in 1..Len(reply.citations.items) :
              /\ result.sources.items[i].uri = reply.citations.items[i]
              /\ result.sources.items[i].title
                    = JText(WithoutLeadingWww(HostOf(reply.citations.items[i])))

\* A grounding chunk that carries a uri and a title.
Carries(c, field) ==
    /\ JGet(c, "web").t = "object"
    /\ JGet(JGet(c, "web"), field).t = "string"
    /\ JGet(JGet(c, "web"), field).s # ""
Complete(c) == Carries(c, "uri") /\ Carries(c, "title")

\* The sources of a result as a sequence: none when the field is absent.
SourcesOf(r) == IF r.sources.t = "array" THEN r.sources.items ELSE << >>

\* C10: for a grounding-chunk list the sources are exactly the chunks that
\* carry both a uri and a title, in the list's order, each with its own title
\* and uri; a chunk that lacks either is dropped, gets no default, and never
\* makes the analysis fail.
C10_GroundingChunks ==
    (Settled /\ reply.kind = "gemini" /\ reply.groundingChunks.t = "array"
       /\ Len(reply.text) = 1 /\ reply.text[1].k = "json" /\ reply.text[1].v.t = "object") =>
        /\ result # JNull
        /\ LET complete == SelectSeq(reply.groundingChunks.items, Complete) IN
           /\ Len(SourcesOf(result)) = Len(complete)
           /\ \A i \in 1..Len(complete) :
                 /\ SourcesOf(result)[i].title = JGet(JGet(complete[i], "web"), "title")
                 /\ SourcesOf(result)[i].uri = JGet(JGet(complete[i], "web"), "uri")

\* C10's case: a chunk without a title before a complete one; only the second
\* is a source.
C10_Witness ==
    /\ Settled
    /\ reply.kind = "gemini"
    /\ reply.groundingChunks
          = JArr(<< GroundingChunk(JStr("https://a.example/1"), JUndef),
                    GroundingChunk(JStr("https://b.example/2"), JStr("Beta")) >>)
    /\ result # JNull
    /\ SourcesOf(result) = <<[title |-> JStr("Beta"), uri |-> JStr("https://b.example/2")]>>

\* The sources the backend's citations give: the complete grounding chunks of a
\* Gemini reply, the citations of a Perplexity reply.
Extracted(r) ==
    IF r.kind = "gemini"
    THEN (IF r.groundingChunks.t = "array" THEN SelectSeq(r.groundingChunks.items, Complete)
          ELSE << >>)
    ELSE (IF r.citations.t = "array" THEN r.citations.items ELSE << >>)

\* C11: the sources field of a result is present exactly when at least one
\* source was extracted from the backend's citations, and is then a non-empty
\* sequence; with no citations, or with every citation dropped, the field is
\* absent, never an empty list.
C11_SourcesPresence ==
    Succeeded =>
        /\ result.sources.t \in {"array", "undefined"}
        /\ (result.sources.t = "array") <=> (Extracted(reply) # << >>)
        /\ result.sources.t = "array" => Len(result.sources.items) = Len(Extracted(reply))
        /\ result.sources # JArr(<< >>)

\* C11's case: a grounding-chunk list whose only chunk has no title; every
\* citation is dropped and the result has no sources field.
C11_Witness ==
    /\ Succeeded
    /\ reply.kind = "gemini"
    /\ reply.groundingChunks = JArr(<<GroundingChunk(JStr("https://a.example/1"), JUndef)>>)
    /\ result.sources = JUndef

\* The credentials a request may carry: what a key item or a variable can hold.
Credentials ==
    {getApiKey(p, ls, me, pe) : p \in Providers, ls \in Storages, me \in MetaEnvs,
                                pe \in ProcessEnvs} \ {JStr(""), JUndef}

\* C12: the system instruction sent to the backend is a function of the
\* category alone: the request in flight carries the instruction that every
\* other request for the same category carries, whatever its provider, depth
\* tier, user text and credential.
C12_InstructionByCategory ==
    req.sent =>
        \A p \in Providers, k \in Credentials, t \in Texts, d \in BOOLEAN :
            Request(p, k, t, req.category, d).systemInstruction = req.systemInstruction

\* C12's case: a deep Gemini request for the sms category is in flight, with
\* the instruction a plain Perplexity request for sms carries.
C12_Witness ==
    /\ pc = "awaiting"
    /\ req.provider = "gemini"
    /\ req.search
    /\ req.category = "sms"
    /\ req.systemInstruction
          = Request("perplexity", JStr("pplx-local"), "Meeting moved to 3 pm", "sms", FALSE)
                .systemInstruction
    /\ req.systemInstruction[2] = "sms"

\* The credentials of a provider: what its key item and its variables can hold.
KeysOf(provider) ==
    (ItemValues(KeyName(provider))
        \cup {ViteKeys.vars[ViteName(KeyName(provider))], ProcessKeys.vars[KeyName(provider)]})
    \ {""}

\* The models of a provider's backend.
ModelsOf(provider) ==
    IF provider = "gemini" THEN {"gemini-3-pro-preview", "gemini-3-flash-preview"}
    ELSE {"sonar-pro", "sonar"}

\* C13: within one analysis, and within one OCR call, the provider is chosen
\* once and never mixed: the backend called, the credential sent and the
\* citation format used for extraction all belong to the provider read at the
\* start of the request, also when the settings are saved while the request is
\* in flight.
C13_ProviderChosenOnce ==
    /\ req.sent =>
          /\ req.model \in ModelsOf(req.provider)
          /\ req.apiKey \in KeysOf(req.provider)
          /\ req.search => req.provider = "gemini"
    /\ reply # NoReply =>
          /\ reply.kind = req.provider
          /\ result # JNull => result = AnalyzeReply(req.provider, reply).value
          /\ (pc = "idle" /\ alertMsg # NoAlert) =>
                alertMsg = AnalyzeReply(req.provider, reply).message
    /\ ocr.pc \in {"reading", "awaiting"} =>
          /\ ocr.provider = "gemini"
          /\ ocr.apiKey \in KeysOf("gemini")

\* C13's case: a Perplexity request is in flight while the settings were saved
\* with Gemini as the provider and the Perplexity key erased; an OCR call that
\* was started under Gemini is in flight as well.
C13_Witness ==
    /\ pc = "awaiting"
    /\ req.provider = "perplexity"
    /\ req.apiKey = "pplx-local"
    /\ getProvider(localStorage) = "gemini"
    /\ StoredKey("perplexity") = ""
    /\ ocr.pc = "awaiting"

\* The last analysis ended with an error, which was reported.
Failed == pc = "idle" /\ alertMsg # NoAlert

\* C14: an analyze request issues at most one provider call and is never
\* retried: after a failure of any kind (no key, a rejected call, an error
\* status, a reply that does not parse) the request has ended, with the one
\* call it had issued or with none, and without a result.
C14_OneCallNoRetry ==
    /\ calls \in {0, 1}
    /\ pc = "awaiting" => (calls = 1 /\ reply = NoReply /\ result = JNull)
    /\ Failed =>
          /\ result = JNull
          /\ ~isAnalyzing
          /\ calls = (IF reply = NoReply THEN 0 ELSE 1)
          /\ reply = NoReply => (req = NoRequest /\ IncludesKeyMissing(alertMsg))

\* C14's case: the one call of a Perplexity request was rejected by the
\* network, and the request ended without a result.
C14_Witness ==
    /\ Failed
    /\ reply = Rejected("perplexity", <<"Failed to fetch">>)
    /\ alertMsg = <<"Failed to fetch">>
    /\ calls = 1
    /\ result = JNull

\* What an analysis of a text does in an application that was just started
\* with the given settings: its request, and how it ends on the reply r.
FreshRequest(ls, metaEnv, procEnv, category, deep, text) ==
    LET provider == getProvider(ls)
        apiKey == getApiKey(provider, ls, metaEnv, procEnv)
    IN IF KeyMissing(apiKey) THEN NoRequest
       ELSE Request(provider, apiKey, text, category, deep)
FreshOutcome(ls, metaEnv, procEnv, r) ==
    LET provider == getProvider(ls)
        apiKey == getApiKey(provider, ls, metaEnv, procEnv)
    IN IF KeyMissing(apiKey) THEN [ok |-> FALSE, message |-> KeyMissingMessage(provider)]
       ELSE Outcome(AnalyzeReply(provider, r))

\* C15: after an analysis failed with any error the application keeps no
\* error state: isAnalyzing is false again, a new analysis can be started, and
\* the analysis started next sends the request and ends with the outcome it
\* has in a freshly started application with the same settings and reply.
C15_NoErrorState ==
    /\ [](Failed => (~isAnalyzing /\ ENABLED (\E text \in Texts : HandleAnalyze(text))))
    /\ [][
        /\ \A text \in Texts :
              (Failed /\ HandleAnalyze(text)) =>
                  /\ req' = FreshRequest(localStorage, importMetaEnv, processEnv,
                                         activeCategory, isDeep, text)
                  /\ req'.sent => (pc' = "awaiting" /\ isAnalyzing' /\ alertMsg' = NoAlert)
                  /\ ~req'.sent =>
                        [ok |-> FALSE, message |-> alertMsg']
                            = FreshOutcome(localStorage, importMetaEnv, processEnv, NoReply)
        /\ (pc = "awaiting" /\ pc' = "idle") =>
              (IF result' # JNull THEN [ok |-> TRUE, value |-> result']
               ELSE [ok |-> FALSE, message |-> alertMsg'])
                  = FreshOutcome(localStorage, importMetaEnv, processEnv, reply') ]_vars

\* C15's case: an analysis failed on a truncated reply; the busy flag is
\* cleared and a new analysis can be started.
C15_Witness ==
    /\ Failed
    /\ reply = GeminiReply(<<TCut>>, JUndef)
    /\ alertMsg = <<"Unexpected end of JSON input">>
    /\ ~isAnalyzing
    /\ ENABLED (\E text \in Texts : HandleAnalyze(text))

\* C16: the application never has two analyzeContent calls outstanding: while
\* one is in flight the busy flag is set, and no analysis is started from any
\* category view, also after the category was switched during the request.
C16_OneAnalysisAtATime ==
    /\ [](pc = "awaiting" =>
            (isAnalyzing /\ ~ENABLED (\E text \in Texts : HandleAnalyze(text))))
    /\ [][(\E text \in Texts : HandleAnalyze(text)) => pc = "idle"]_vars

\* C16's case: the category was switched while a request is in flight, and no
\* analysis can be started from the new view.
C16_Witness ==
    /\ pc = "awaiting"
    /\ req.category = "rumour"
    /\ activeCategory = "investment"
    /\ isAnalyzing
    /\ ~ENABLED (\E text \in Texts : HandleAnalyze(text))

\* The message an error body carries in its error.message field, as its
\* tokens; none when the body is no JSON or carries no message.
CarriedMessage(body) ==
    IF Len(body) = 1 /\ body[1].k = "json"
    THEN LET m == JGet(JGet(body[1].v, "error"), "message") IN
         IF m.t = "string" /\ m.s # "" THEN <<m.s>>
         ELSE IF m.t = "text" THEN m.toks
         ELSE << >>
    ELSE << >>

\* The last analysis ended on an error status of the Perplexity endpoint.
EndedOnErrorStatus ==
    /\ pc = "idle"
    /\ reply # NoReply
    /\ reply.kind = "perplexity"
    /\ reply.settled = "fulfilled"
    /\ ~ResponseOk(reply)

\* C17: when the Perplexity endpoint answers with a non-2xx status the analysis
\* fails with the error.message of the response body when the body is JSON
\* carrying one, and otherwise with a generic message that contains the status
\* code; the body is never parsed as an analysis payload.
C17_ErrorStatusMessage ==
    EndedOnErrorStatus =>
        /\ result = JNull
        /\ alertMsg # NoAlert
        /\ IF CarriedMessage(reply.body) # << >>
           THEN alertMsg = CarriedMessage(reply.body)
           ELSE \E i \in 1..Len(alertMsg) : alertMsg[i] = ToString(reply.status)

\* The reply text is empty or the empty object and nothing else.
EmptyPayload(r) == ReplyText(r) \in { << >>, <<TJson(EmptyObject)>> }

\* The reply text is one JSON object and nothing else.
ObjectPayload(r) ==
    Len(ReplyText(r)) = 1 /\ ReplyText(r)[1].k = "json" /\ ReplyText(r)[1].v.t = "object"

\* C18: when a parseable payload omits an optional field the field gets its
\* default: score 0, riskLevel Low, signal value 0, the placeholder explanation,
\* an empty metrics sequence; an empty object, and an empty reply text, which is
\* read as one, yields all of them, and absent sources when no citation came
\* with it, without an error.
C18_Defaults ==
    /\ (Settled /\ EmptyPayload(reply) /\ Extracted(reply) = << >>) =>
          /\ result # JNull
          /\ alertMsg = NoAlert
          /\ result.score = JNum(0)
          /\ result.riskLevel = JStr("Low")
          /\ Len(result.chartData) = 6
          /\ \A i \in 1..6 : result.chartData[i].value = JNum(0)
          /\ result.explanation = JStr("Analysis complete.")
          /\ result.specificMetrics = JArr(<< >>)
          /\ result.sources = JUndef
    /\ (Succeeded /\ ObjectPayload(reply)) =>
          LET absent(f) == JGet(PayloadOf(reply), f) = JUndef IN
          /\ absent("score") => result.score = JNum(0)
          /\ absent("riskLevel") => result.riskLevel = JStr("Low")
          /\ absent("radarValues") => \A i \in 1..6 : result.chartData[i].value = JNum(0)
          /\ absent("explanation") => result.explanation = JStr("Analysis complete.")
          /\ absent("metrics") => result.specificMetrics = JArr(<< >>)

\* C18's case: Perplexity returned an empty content, and the analysis gave the
\* result made of the defaults.
C18_Witness ==
    /\ Settled
    /\ reply = PerplexityReply(<< >>, JUndef)
    /\ result # JNull
    /\ result.score = JNum(0)
    /\ result.explanation = JStr("Analysis complete.")
    /\ result.sources = JUndef

\* C19: when an otherwise valid payload carries an optional field of the wrong
\* shape (a score that is no number, a signal map that is no map or holds a
\* value that is no number, metrics that are no list, an explanation that is
\* no string) no error is raised and the result holds the field's default, so
\* that it satisfies the schema of an AnalysisResult.
C19_MisshapenDefaulted ==
    (Settled /\ ObjectPayload(reply) /\ Extracted(reply) = << >>) =>
        /\ result # JNull
        /\ result.score.t = "number"
        /\ result.explanation.t = "string"
        /\ result.specificMetrics.t = "array"
        /\ \A i \in 1..6 : result.chartData[i].value.t = "number"
        /\ JGet(PayloadOf(reply), "score").t # "number" => result.score = JNum(0)
        /\ JGet(PayloadOf(reply), "explanation").t # "string" =>
              result.explanation = JStr("Analysis complete.")
        /\ JGet(PayloadOf(reply), "metrics").t # "array" => result.specificMetrics = JArr(<< >>)
        /\ JGet(PayloadOf(reply), "radarValues").t # "object" =>
              \A i \in 1..6 : result.chartData[i].value = JNum(0)

\* C20: a Perplexity reply whose content is a valid payload yields a result
\* whatever its citations array holds: an entry that is no well-formed URL
\* does not make the analysis fail.
C20_CitationsNeverFail ==
    (Settled /\ reply.kind = "perplexity" /\ ObjectPayload(reply)) =>
        /\ result # JNull
        /\ alertMsg = NoAlert

\* The model identifier of each provider and tier.
ModelFor(provider, deep) ==
    IF provider = "gemini"
    THEN (IF deep THEN "gemini-3-pro-preview" ELSE "gemini-3-flash-preview")
    ELSE (IF deep THEN "sonar-pro" ELSE "sonar")

\* The fields of a request that the tier has no part in.
TierFree(r) ==
    <<r.provider, r.apiKey, r.text, r.category, r.systemInstruction, r.temperature>>

\* C21: the depth tier determines, and only determines, the model and the
\* search tooling of the request an analysis sends: on Gemini the search tool
\* is enabled exactly on the deep tier and the tiers have different models, on
\* Perplexity the tiers have different models, no search tool and the
\* temperature 0.2; the instruction, the text and every other field are those
\* of the request the other tier sends.
C21_TierSelectsModel ==
    [][ \A text \in Texts :
          (HandleAnalyze(text) /\ req'.sent) =>
              /\ req'.model = ModelFor(req'.provider, isDeep)
              /\ req'.model # ModelFor(req'.provider, ~isDeep)
              /\ req'.search = (req'.provider = "gemini" /\ isDeep)
              /\ req'.provider = "perplexity" => req'.temperature = "0.2"
              /\ req'.text = text
              /\ TierFree(req')
                    = TierFree(Request(req'.provider, JStr(req'.apiKey), text,
                                       activeCategory, ~isDeep)) ]_vars

\* C21's case: a Gemini request of the deep tier is in flight, with the pro
\* model and the search tool.
C21_Witness ==
    /\ pc = "awaiting"
    /\ isDeep
    /\ req.provider = "gemini"
    /\ req.model = "gemini-3-pro-preview"
    /\ req.search

\* C22: when an analysis fails because the active provider has no credential
\* the settings dialog is opened and the request is not retried; a failure of
\* any other kind (a rejected call, an error status, a reply that does not
\* parse) does not open the settings dialog.
C22_SettingsOnMissingKey ==
    [][ /\ \A text \in Texts :
              (NoCredential(getProvider(localStorage)) /\ HandleAnalyze(text)) =>
                  (showSettings' /\ calls' = 0 /\ pc' = "idle" /\ ~isAnalyzing')
        /\ (pc = "awaiting" /\ pc' = "idle" /\ result' = JNull) =>
              showSettings' = showSettings ]_vars

\* The message of an OCR failure says that the Gemini key is required.
SaysKeyRequired(message) ==
    \E i \in 1..Len(message) : message[i] = "Gemini API Key required for Image Analysis."

\* C23: with Gemini active and no Gemini credential configured, performOCR
\* fails with the error that the key is required, without reading the image
\* and without a network call; it never returns a text, empty or not.
C23_OcrNeedsKey ==
    (getProvider(localStorage) = "gemini" /\ NoCredential("gemini")) =>
        /\ ocr.pc = "idle"
        /\ ocrCalls = 0
        /\ ocrOutcome.settled => (~ocrOutcome.ok /\ SaysKeyRequired(ocrOutcome.message))

\* C23's case: Gemini is active, only a Perplexity key is stored, and an OCR
\* call failed for the missing key.
C23_Witness ==
    /\ getProvider(localStorage) = "gemini"
    /\ NoCredential("gemini")
    /\ StoredKey("perplexity") # ""
    /\ ocrOutcome.settled
    /\ ~ocrOutcome.ok
    /\ SaysKeyRequired(ocrOutcome.message)
    /\ ocrCalls = 0

\* C24: a displayed result belongs to the active category: it is the result
\* of the last analysis, which was started under the category that is active
\* now; after a switch of category no result is displayed, also when an
\* analysis started before the switch completes after it.
C24_ResultOfActiveCategory ==
    result # JNull =>
        /\ req.sent
        /\ req.category = activeCategory

\* C25: every started analysis leaves the analyzing state, provided its
\* provider call completes: whether the call succeeds, fails or its reply does
\* not parse, isAnalyzing becomes false again and an analysis can be started.
C25_AnalysisEnds ==
    isAnalyzing ~> (~isAnalyzing /\ pc = "idle"
                    /\ ENABLED (\E text \in Texts : HandleAnalyze(text)))

\* C25's case: the call of an analysis was rejected by the network after the
\* category was switched, and the busy flag is cleared.
C25_Witness ==
    /\ pc = "idle"
    /\ reply = Rejected("perplexity", <<"Failed to fetch">>)
    /\ req.category # activeCategory
    /\ ~isAnalyzing
    /\ ENABLED (\E text \in Texts : HandleAnalyze(text))

\* C26: in every reachable state, while an analysis is in flight the
\* displayed result is empty: starting an analysis clears the previous result,
\* and a result is set only by the completion of the analysis in flight, to
\* what that analysis returns.
C26_NoResultWhileAnalyzing ==
    /\ [](isAnalyzing => result = JNull)
    /\ [][ /\ (\E text \in Texts : HandleAnalyze(text)) => result' = JNull
           /\ (result' # JNull /\ result' # result) =>
                 /\ isAnalyzing
                 /\ pc = "awaiting"
                 /\ ~isAnalyzing'
                 /\ result' = AnalyzeReply(req.provider, reply').value ]_vars

\* C26's case: after the settings were saved with Gemini and its key, an
\* analysis is in flight and no result is displayed.
C26_Witness ==
    /\ isAnalyzing
    /\ pc = "awaiting"
    /\ req.provider = "gemini"
    /\ req.apiKey = "gem-local"
    /\ result = JNull
    /\ reply = NoReply

====
